---- MODULE Spec2Model ----
(***************************************************************************)
(* Supply chain allocation and policy engine of the InventoryOptimizer     *)
(* component (src/unnamed/part_000, lines 443-1907).                       *)
(*                                                                         *)
(* Numbers.  JavaScript numbers are modelled as integers in fixed point:   *)
(*   quantities (stock, demand, capacity, allocation)   units              *)
(*   festival multiplier, holding_cost_rate             hundredths         *)
(*   unit_cost, unit_price, production_cost_per_unit    tenths             *)
(*   money totals before toFixed                        thousandths        *)
(*   money after toFixed(2), percentages after toFixed(2)  hundredths      *)
(* The IEEE value NaN (0/0) is the distinguished value NaN below; every    *)
(* arithmetic helper propagates it the way JavaScript does, and every      *)
(* comparison with it is false.                                            *)
(*                                                                         *)
(* Objects.  SKU records are JavaScript objects that several arrays may    *)
(* share, and updateInventoryItem writes into them in place; they live in  *)
(* `heap`, and arrays hold object ids.  A timer callback reads the arrays  *)
(* of the render that created it (its closure) and the objects as they are *)
(* when it runs.                                                           *)
(***************************************************************************)
EXTENDS Integers, Sequences, FiniteSets, TLC

VARIABLES
  heap,                  \* object id -> SKU record (EnhancedInventoryData objects)
  inventoryData,         \* useState: sequence of object ids
  productionConstraints, \* useState: sequence of factory records
  suppliers,             \* useState: sequence of supplier records
  festivalMultiplier,    \* useState: hundredths
  analysisData,          \* useState: Null or the analysis result
  optimizedData,         \* useState: Null or the optimization result
  festivalPlan,          \* useState: Null or the festival plan
  isAnalyzing,           \* useState
  isOptimizing,          \* useState
  timers,                \* pending setTimeout / FileReader callbacks with their closures
  optRead,               \* history: what the last completed optimization read (see Remember)
  pendingAtUpload,       \* history: the analysis and optimization callbacks that were
                         \*   pending when a file was uploaded, until they run
  edits                  \* history: number of record-store edits made so far (see CountedEdit)

vars == << heap, inventoryData, productionConstraints, suppliers,
           festivalMultiplier, analysisData, optimizedData, festivalPlan,
           isAnalyzing, isOptimizing, timers, optRead, pendingAtUpload, edits >>

\* ------------------------------------------------------------------ bounds
MaxObj == 11
MaxSkus == 3
MaxEdits == 1
MaxSuppliers == 3
MaxDemand == 200

\* --------------------------------------------------------------- numbers
NaN == -999999

Null == [null |-> TRUE]

IsNaN(x) == x = NaN

\* a + b
Add(a, b) == IF IsNaN(a) \/ IsNaN(b) THEN NaN ELSE a + b

\* a - b
Sub(a, b) == IF IsNaN(a) \/ IsNaN(b) THEN NaN ELSE a - b

\* a * b
Mul(a, b) == IF IsNaN(a) \/ IsNaN(b) THEN NaN ELSE a * b

\* Math.min(a, b): NaN if either argument is NaN
MathMin(a, b) == IF IsNaN(a) \/ IsNaN(b) THEN NaN ELSE IF a <= b THEN a ELSE b

\* Math.max(a, b)
MathMax(a, b) == IF IsNaN(a) \/ IsNaN(b) THEN NaN ELSE IF a >= b THEN a ELSE b

\* a > b as JavaScript evaluates it: false when either side is NaN
Gt(a, b) == ~IsNaN(a) /\ ~IsNaN(b) /\ a > b

\* Math.floor in place of Math.round
MathRoundFloor(num, den) == num \div den

\* Math.round(num / den) for den > 0: the nearest integer, halves upwards
MathRound(num, den) == (2 * num + den) \div (2 * den)

\* Math.round(num / den) where the quotient may be 0/0
RoundDiv(num, den) ==
  IF IsNaN(num) \/ IsNaN(den) THEN NaN
  ELSE IF den = 0 THEN NaN       \* only 0/0 arises: num = 0 whenever den = 0
  ELSE MathRound(num, den)

\* Number((num / den * 100).toFixed(2)) in hundredths of a percent
Percent2(num, den) == RoundDiv(Mul(num, 10000), den)

\* floor and remainder of a * 10^k / c, digit by digit (keeps within 32 bits)
LongDiv(a, k, c) ==
  LET st[i \in 0..k] ==
        IF i = 0 THEN [q |-> a \div c, r |-> a % c]
        ELSE [q |-> st[i-1].q * 10 + (st[i-1].r * 10) \div c,
              r |-> (st[i-1].r * 10) % c]
  IN st[k]

\* Math.round-to-nearest of a * 10^k / c, halves upwards, c > 0
ScaledRound(a, k, c) ==
  LET d == LongDiv(a, k, c) IN IF 2 * d.r >= c THEN d.q + 1 ELSE d.q

\* sum of a sequence of numbers, NaN-propagating (Array.prototype.reduce with +)
SumOver(s) ==
  LET acc[i \in 0..Len(s)] == IF i = 0 THEN 0 ELSE Add(acc[i-1], s[i])
  IN acc[Len(s)]


\* ------------------------------------------------------ demand resolver
\* Array.prototype.find: index of the first entry of s with the given sku, 0 if none
FindSku(s, sku) ==
  IF \E i \in DOMAIN s : s[i].sku = sku
  THEN CHOOSE i \in DOMAIN s : s[i].sku = sku /\ \A j \in 1..(i-1) : s[j].sku # sku
  ELSE 0

\* as getEffectiveDemand, but testing the demand itself for truthiness
getEffectiveDemandTruthy(item, plan) ==
  IF plan = Null THEN item.forecast_demand
  ELSE LET k == FindSku(plan.demandForecast, item.sku)
       IN IF k # 0 /\ plan.demandForecast[k].festivalDemand # 0
          THEN plan.demandForecast[k].festivalDemand
          ELSE item.forecast_demand

\* festivalPlan?.demandForecast?.find(fd => fd.sku === item.sku): the entry's
\* festivalDemand when an entry exists (an object is truthy whatever it holds),
\* else the forecast
getEffectiveDemand(item, plan) ==
  IF plan = Null THEN item.forecast_demand
  ELSE LET k == FindSku(plan.demandForecast, item.sku)
       IN IF k # 0 THEN plan.demandForecast[k].festivalDemand
          ELSE item.forecast_demand

\* ----------------------------------------------------- festival planner
\* Number(festivalMultiplier) || 1.35
currentMultiplier(m) == IF IsNaN(m) \/ m = 0 THEN 135 ELSE m

\* as festivalDemandOf, but surging every SKU, sensitive or not
festivalDemandOfAll(item, m) == MathRound(item.forecast_demand * m, 100)

\* Math.round(item.forecast_demand * (item.is_festival_sensitive ? m : 1))
festivalDemandOf(item, m) ==
  IF item.is_festival_sensitive THEN MathRound(item.forecast_demand * m, 100)
  ELSE item.forecast_demand

\* mockFestivalPlan
mockFestivalPlan(items, factories, mult) ==
  LET m == currentMultiplier(mult) IN
  [ demandForecast |->
      [i \in DOMAIN items |->
        [ sku |-> items[i].sku,
          baseDemand |-> items[i].forecast_demand,
          festivalDemand |-> festivalDemandOf(items[i], m),
          surgeFactor |-> IF items[i].is_festival_sensitive THEN m ELSE 100 ]],
    productionSchedule |->
      [i \in DOMAIN factories |->
        [ factory |-> factories[i].factory_location,
          weeklyCapacity |-> factories[i].weekly_capacity,
          festivalCapacityNeeded |-> MathRound(factories[i].weekly_capacity * m, 100),
          additionalShiftsRequired |-> 2 ]],
    inventoryBuildup |->
      [i \in DOMAIN items |->
        [ sku |-> items[i].sku,
          currentStock |-> items[i].current_stock,
          festivalRequirement |-> festivalDemandOf(items[i], m),
          buildupNeeded |->
            MathMax(0, festivalDemandOf(items[i], m) - items[i].current_stock) ]] ]

\* ------------------------------------------------- production allocator
\* sum of Math.round(effectiveDemand * 1.2) over the SKUs
totalOptimalStock(items, plan) ==
  SumOver([ix \in 1..Len(items) |-> LET it == items[ix] IN MathRound(getEffectiveDemand(it, plan) * 12, 10)])

totalCurrentStock(items) == SumOver([ix \in 1..Len(items) |-> LET it == items[ix] IN it.current_stock])

\* Math.max(0, totalOptimalStock - totalCurrentStock)
productionNeeded(items, plan) ==
  MathMax(0, totalOptimalStock(items, plan) - totalCurrentStock(items))

totalCapacityOf(factories) == SumOver([ix \in 1..Len(factories) |-> LET f == factories[ix] IN f.weekly_capacity])

\* as targetAllocation, with Math.floor in place of Math.round
targetAllocationFloor(P, cap, total) ==
  IF IsNaN(P) \/ total = 0 THEN NaN ELSE (P * cap) \div total

\* Math.round(productionNeeded * (weekly_capacity / totalCapacity)); 0/0 is NaN
targetAllocation(P, cap, total) == RoundDiv(Mul(P, cap), total)

\* Number(((allocatedDemand / capacity) * 100).toFixed(2))
utilizationRate(alloc, cap) == Percent2(alloc, cap)

\* as ProportionalPass, but without capping an allocation at the capacity
ProportionalPassUncapped(factories, P) ==
  LET total == totalCapacityOf(factories)
      st[i \in 0..Len(factories)] ==
        IF i = 0 THEN [alloc |-> << >>, remaining |-> P]
        ELSE LET f == factories[i]
                 target == targetAllocation(P, f.weekly_capacity, total)
                 actual == MathMin(target, st[i-1].remaining)
             IN [ alloc |-> Append(st[i-1].alloc,
                     [ factory |-> f.factory_location,
                       allocatedDemand |-> actual,
                       capacity |-> f.weekly_capacity,
                       utilizationRate |-> utilizationRate(actual, f.weekly_capacity) ]),
                  remaining |-> Sub(st[i-1].remaining, actual) ]
  IN st[Len(factories)]

\* productionConstraints.map(...): the proportional pass, carrying remainingProduction
ProportionalPass(factories, P) ==
  LET total == totalCapacityOf(factories)
      st[i \in 0..Len(factories)] ==
        IF i = 0 THEN [alloc |-> << >>, remaining |-> P]
        ELSE LET f == factories[i]
                 target == targetAllocation(P, f.weekly_capacity, total)
                 actual == MathMin(MathMin(target, f.weekly_capacity),
                                   st[i-1].remaining)
             IN [ alloc |-> Append(st[i-1].alloc,
                     [ factory |-> f.factory_location,
                       allocatedDemand |-> actual,
                       capacity |-> f.weekly_capacity,
                       utilizationRate |-> utilizationRate(actual, f.weekly_capacity) ]),
                  remaining |-> Sub(st[i-1].remaining, actual) ]
  IN st[Len(factories)]

\* as RedistributionPass, but walking the factories from the last to the first
RedistributionPassBackwards(p) ==
  LET n == Len(p.alloc)
      st[i \in 0..n] ==
        IF i = 0 THEN [alloc |-> p.alloc, remaining |-> p.remaining, stop |-> FALSE]
        ELSE LET prev == st[i-1]
                 k == n + 1 - i
                 a == prev.alloc[k]
                 spare == Sub(a.capacity, a.allocatedDemand)
             IN IF prev.stop \/ ~Gt(spare, 0) THEN prev
                ELSE LET additional == MathMin(spare, prev.remaining)
                         newAlloc == a.allocatedDemand + additional
                         rem == prev.remaining - additional
                     IN [ alloc |-> [prev.alloc EXCEPT ![k] =
                             [a EXCEPT !.allocatedDemand = newAlloc,
                                       !.utilizationRate =
                                          utilizationRate(newAlloc, a.capacity)]],
                          remaining |-> rem,
                          stop |-> rem <= 0 ]
  IN IF Gt(p.remaining, 0) THEN st[n].alloc ELSE p.alloc

\* "Handle leftover production": the for loop with its break
RedistributionPass(p) ==
  LET n == Len(p.alloc)
      st[i \in 0..n] ==
        IF i = 0 THEN [alloc |-> p.alloc, remaining |-> p.remaining, stop |-> FALSE]
        ELSE LET prev == st[i-1]
                 a == prev.alloc[i]
                 spare == Sub(a.capacity, a.allocatedDemand)
             IN IF prev.stop \/ ~Gt(spare, 0) THEN prev
                ELSE LET additional == MathMin(spare, prev.remaining)
                         newAlloc == a.allocatedDemand + additional
                         rem == prev.remaining - additional
                     IN [ alloc |-> [prev.alloc EXCEPT ![i] =
                             [a EXCEPT !.allocatedDemand = newAlloc,
                                       !.utilizationRate =
                                          utilizationRate(newAlloc, a.capacity)]],
                          remaining |-> rem,
                          stop |-> rem <= 0 ]
  IN IF Gt(p.remaining, 0) THEN st[n].alloc ELSE p.alloc

\* productionAllocation after both passes
productionAllocation(items, factories, plan) ==
  RedistributionPass(ProportionalPass(factories, productionNeeded(items, plan)))


\* ---------------------------------------------- cost & metrics aggregator
\* productionConstraints.find(f => f.factory_location === alloc.factory)
\*   ?.production_cost_per_unit || 0
costPerUnitOf(factories, name) ==
  IF \E i \in DOMAIN factories : factories[i].factory_location = name
  THEN LET k == CHOOSE i \in DOMAIN factories :
                  /\ factories[i].factory_location = name
                  /\ \A j \in 1..(i-1) : factories[j].factory_location # name
       IN factories[k].production_cost_per_unit
  ELSE 0

\* thousandths
totalProductionCost(alloc, factories) ==
  SumOver([ix \in 1..Len(alloc) |-> LET a == alloc[ix] IN Mul(a.allocatedDemand, costPerUnitOf(factories, a.factory) * 100)])

\* as totalInventoryCost, but holding the forecast demand instead of the stock
totalInventoryCostOfForecast(items) ==
  SumOver([ix \in 1..Len(items) |-> LET it == items[ix] IN it.forecast_demand * it.unit_cost * it.holding_cost_rate])

\* thousandths: current_stock * unit_cost * holding_cost_rate
totalInventoryCost(items) ==
  SumOver([ix \in 1..Len(items) |-> LET it == items[ix] IN it.current_stock * it.unit_cost * it.holding_cost_rate])

\* thousandths: moq * unit_price
totalProcurementCost(sups) ==
  SumOver([ix \in 1..Len(sups) |-> LET s == sups[ix] IN s.moq * s.unit_price * 100])

totalSupplyChainCost(alloc, items, factories, sups) ==
  Add(Add(totalProductionCost(alloc, factories), totalInventoryCost(items)),
      totalProcurementCost(sups))

\* Number(x.toFixed(2)) of a money amount: thousandths to hundredths
Fixed2(x) == RoundDiv(x, 10)

totalDemand(items, plan) ==
  SumOver([ix \in 1..Len(items) |-> LET it == items[ix] IN getEffectiveDemand(it, plan)])

totalFulfilled(items, plan) ==
  SumOver([ix \in 1..Len(items) |-> LET it == items[ix] IN MathMin(it.current_stock, getEffectiveDemand(it, plan))])

\* totalDemand > 0 ? (totalFulfilled / totalDemand) * 100 : 100, after toFixed(2)
dynamicServiceLevel(items, plan) ==
  IF Gt(totalDemand(items, plan), 0)
  THEN MathRound(totalFulfilled(items, plan) * 10000, totalDemand(items, plan))
  ELSE 10000

\* totalInventory > 0 ? totalDemand / totalInventory : 0, after toFixed(2)
dynamicInventoryTurnover(items, plan) ==
  IF Gt(totalCurrentStock(items), 0)
  THEN MathRound(totalDemand(items, plan) * 100, totalCurrentStock(items))
  ELSE 0

\* totalSupplyChainCost > 0 ? ((totalDemand * 15) / totalSupplyChainCost) * 100 : 0,
\* after toFixed(2); cost is in thousandths, the result in hundredths
dynamicCostEfficiency(D, cost) ==
  IF Gt(cost, 0) THEN ScaledRound(D * 15, 7, cost) ELSE 0

\* Number(((totalAllocatedProduction / totalCapacity) * 100).toFixed(2))
actualCapacityUtilization(alloc, factories) ==
  Percent2(SumOver([ix \in 1..Len(alloc) |-> LET a == alloc[ix] IN a.allocatedDemand]), totalCapacityOf(factories))

\* ------------------------------------------------ inventory policy
\* as inventoryOptimization, but recommending INCREASE also when the stock equals
\* the demand
inventoryOptimizationLenient(items, plan) ==
  [i \in DOMAIN items |->
    LET effectiveDemand == getEffectiveDemand(items[i], plan) IN
    [ sku |-> items[i].sku,
      warehouse |-> items[i].warehouse,
      currentStock |-> items[i].current_stock,
      optimalInventory |-> MathRound(effectiveDemand * 12, 10),
      safetyStock |-> MathRound(effectiveDemand * 3, 10),
      reorderPoint |-> MathRound(effectiveDemand * 8, 10),
      recommendation |->
        IF items[i].current_stock <= effectiveDemand THEN "INCREASE" ELSE "OPTIMIZE" ]]

\* as inventoryOptimization, but with the factors of safetyStock and reorderPoint
\* exchanged
inventoryOptimizationSwapped(items, plan) ==
  [i \in DOMAIN items |->
    LET effectiveDemand == getEffectiveDemand(items[i], plan) IN
    [ sku |-> items[i].sku,
      warehouse |-> items[i].warehouse,
      currentStock |-> items[i].current_stock,
      optimalInventory |-> MathRound(effectiveDemand * 12, 10),
      safetyStock |-> MathRound(effectiveDemand * 8, 10),
      reorderPoint |-> MathRound(effectiveDemand * 3, 10),
      recommendation |->
        IF items[i].current_stock < effectiveDemand THEN "INCREASE" ELSE "OPTIMIZE" ]]

inventoryOptimization(items, plan) ==
  [i \in DOMAIN items |->
    LET effectiveDemand == getEffectiveDemand(items[i], plan) IN
    [ sku |-> items[i].sku,
      warehouse |-> items[i].warehouse,
      currentStock |-> items[i].current_stock,
      optimalInventory |-> MathRound(effectiveDemand * 12, 10),
      safetyStock |-> MathRound(effectiveDemand * 3, 10),
      reorderPoint |-> MathRound(effectiveDemand * 8, 10),
      recommendation |->
        IF items[i].current_stock < effectiveDemand THEN "INCREASE" ELSE "OPTIMIZE" ]]

\* suppliers.map(...): deliveryDate is Date.now() plus the lead time, in days
procurementPlan(sups, now) ==
  [i \in DOMAIN sups |->
    [ supplierId |-> sups[i].supplier_id,
      orderQuantity |-> sups[i].moq,
      totalCost |-> sups[i].moq * sups[i].unit_price,
      deliveryDate |-> now + sups[i].lead_time_days ]]

\* as mockOptimization, but the production cost adds up over the runs
mockOptimizationAccumulating(items, factories, sups, plan, now) ==
  LET alloc == productionAllocation(items, factories, plan)
      cost == totalSupplyChainCost(alloc, items, factories, sups)
      before == IF optimizedData = Null THEN 0
                ELSE optimizedData.costAnalysis.totalProductionCost
  IN
  [ productionAllocation |-> alloc,
    inventoryOptimization |-> inventoryOptimization(items, plan),
    procurementPlan |-> procurementPlan(sups, now),
    costAnalysis |->
      [ totalProductionCost |->
          Add(before, Fixed2(totalProductionCost(alloc, factories))),
        totalInventoryCost |-> Fixed2(totalInventoryCost(items)),
        totalProcurementCost |-> Fixed2(totalProcurementCost(sups)),
        totalSupplyChainCost |-> Fixed2(cost) ],
    performanceMetrics |->
      [ serviceLevel |-> dynamicServiceLevel(items, plan),
        inventoryTurnover |-> dynamicInventoryTurnover(items, plan),
        capacityUtilization |-> actualCapacityUtilization(alloc, factories),
        costEfficiency |-> dynamicCostEfficiency(totalDemand(items, plan), cost) ] ]

\* the object passed to setOptimizedData
mockOptimization(items, factories, sups, plan, now) ==
  LET alloc == productionAllocation(items, factories, plan)
      cost == totalSupplyChainCost(alloc, items, factories, sups)
  IN
  [ productionAllocation |-> alloc,
    inventoryOptimization |-> inventoryOptimization(items, plan),
    procurementPlan |-> procurementPlan(sups, now),
    costAnalysis |->
      [ totalProductionCost |-> Fixed2(totalProductionCost(alloc, factories)),
        totalInventoryCost |-> Fixed2(totalInventoryCost(items)),
        totalProcurementCost |-> Fixed2(totalProcurementCost(sups)),
        totalSupplyChainCost |-> Fixed2(cost) ],
    performanceMetrics |->
      [ serviceLevel |-> dynamicServiceLevel(items, plan),
        inventoryTurnover |-> dynamicInventoryTurnover(items, plan),
        capacityUtilization |-> actualCapacityUtilization(alloc, factories),
        costEfficiency |-> dynamicCostEfficiency(totalDemand(items, plan), cost) ] ]


\* ------------------------------------------------------ analysis reporter
\* dynamicForecastAccuracy (useMemo over inventoryData), hundredths
dynamicForecastAccuracy(items) ==
  LET totalForecast == SumOver([ix \in 1..Len(items) |-> LET it == items[ix] IN it.forecast_demand])
      totalError == SumOver([ix \in 1..Len(items) |-> LET it == items[ix] IN IF it.forecast_demand >= it.actual_demand
                      THEN it.forecast_demand - it.actual_demand
                      ELSE it.actual_demand - it.forecast_demand])
  IN IF totalForecast > 0
     THEN MathRound(10000 * (totalForecast - totalError), totalForecast)
     ELSE 10000

\* as dynamicAnalysis, but counting as high risk every SKU below half its
\* actual demand
dynamicAnalysisOneThreshold(ids, h, sups, accuracy) ==
  LET items == [i \in DOMAIN ids |-> h[ids[i]]] IN
  [ totalForecastDemand |-> SumOver([ix \in 1..Len(items) |-> LET it == items[ix] IN it.forecast_demand]),
    totalActualDemand |-> SumOver([ix \in 1..Len(items) |-> LET it == items[ix] IN it.actual_demand]),
    totalStock |-> SumOver([ix \in 1..Len(items) |-> LET it == items[ix] IN it.current_stock]),
    forecastAccuracy |-> accuracy,
    criticalShortages |->
      SelectSeq(ids, LAMBDA o : 2 * h[o].current_stock < h[o].actual_demand),
    highRiskProducts |->
      Len(SelectSeq(ids, LAMBDA o : 2 * h[o].current_stock < h[o].actual_demand)),
    unreliableSuppliers |->
      Cardinality({i \in DOMAIN sups : sups[i].reliability_score < 80}) ]

\* the object passed to setAnalysisData; criticalShortages holds the very
\* objects of inventoryData (filter copies references, not records)
dynamicAnalysis(ids, h, sups, accuracy) ==
  LET items == [i \in DOMAIN ids |-> h[ids[i]]] IN
  [ totalForecastDemand |-> SumOver([ix \in 1..Len(items) |-> LET it == items[ix] IN it.forecast_demand]),
    totalActualDemand |-> SumOver([ix \in 1..Len(items) |-> LET it == items[ix] IN it.actual_demand]),
    totalStock |-> SumOver([ix \in 1..Len(items) |-> LET it == items[ix] IN it.current_stock]),
    forecastAccuracy |-> accuracy,
    criticalShortages |->
      SelectSeq(ids, LAMBDA o : 2 * h[o].current_stock < h[o].actual_demand),
    highRiskProducts |->
      Len(SelectSeq(ids, LAMBDA o : 10 * h[o].current_stock < 3 * h[o].actual_demand)),
    unreliableSuppliers |->
      Cardinality({i \in DOMAIN sups : sups[i].reliability_score < 80}) ]

\* ------------------------------------------------------------ CSV upload
Header == << "sku", "warehouse", "product_category", "current_stock",
             "forecast_demand", "actual_demand", "production_capacity",
             "unit_cost", "holding_cost_rate", "stockout_penalty",
             "lead_time_days", "shelf_life_days", "is_festival_sensitive" >>

\* parseInt of the field texts that occur in the files below; NaN otherwise
parseInt(t) ==
  CASE t = "0" -> 0 [] t = "-4" -> -4 [] t = "5" -> 5 [] t = "7" -> 7 [] t = "10" -> 10
    [] t = "25" -> 25 [] t = "30" -> 30 [] t = "40" -> 40 [] t = "60" -> 60
    [] t = "90" -> 90 [] OTHER -> NaN

\* parseFloat of a field text, in thousandths; NaN otherwise
parseFloat(t) ==
  CASE t = "0" -> 0 [] t = "0.25" -> 250 [] t = "0.3" -> 300 [] t = "10.0" -> 10000
    [] t = "12.5" -> 12500 [] t = "50.0" -> 50000 [] OTHER -> NaN

\* x || dflt for a number x: 0 and NaN are falsy
OrDefault(x, dflt) == IF IsNaN(x) \/ x = 0 THEN dflt ELSE x

\* s || dflt for a string s: "" is falsy
StrOrDefault(t, dflt) == IF t = "" THEN dflt ELSE t

\* values[12].trim().toLowerCase() === "true" for the texts that occur below
isSensitive(t) == t \in {"true", "TRUE", " true "}

\* the template literal `SKU-${n}`
SkuName(n) ==
  << "SKU-1", "SKU-2", "SKU-3", "SKU-4", "SKU-5", "SKU-6", "SKU-7", "SKU-8",
     "SKU-9", "SKU-10", "SKU-11" >>[n]

\* one parsedData.push(...) of parseCSVFile; i is the line index
ParseRow(values, i) ==
  [ sku |-> StrOrDefault(values[1], SkuName(i)),
    warehouse |-> StrOrDefault(values[2], "Delhi"),
    product_category |-> StrOrDefault(values[3], "Snacks"),
    current_stock |-> OrDefault(parseInt(values[4]), 0),
    forecast_demand |-> OrDefault(parseInt(values[5]), 0),
    actual_demand |-> OrDefault(parseInt(values[6]), 0),
    production_capacity |-> OrDefault(parseInt(values[7]), 0),
    unit_cost |-> OrDefault(parseFloat(values[8]), 10000) \div 100,
    holding_cost_rate |-> OrDefault(parseFloat(values[9]), 250) \div 10,
    stockout_penalty |-> OrDefault(parseFloat(values[10]), 50000) \div 100,
    lead_time_days |-> OrDefault(parseInt(values[11]), 7),
    shelf_life_days |-> OrDefault(parseInt(values[12]), 90),
    is_festival_sensitive |-> isSensitive(values[13]) ]

\* parseCSVFile's loop: a file is its lines, each already split at the commas;
\* lines[1] is the header line
ParseLines(lines) ==
  LET acc[i \in 1..Len(lines)] ==
        IF i = 1 THEN << >>
        ELSE IF i - 1 < 10 /\ Len(lines[i]) >= Len(lines[1])
             THEN Append(acc[i-1], ParseRow(lines[i], i - 1))
             ELSE acc[i-1]
  IN acc[Len(lines)]


\* ------------------------------------------------------- values drawn
StockVals == {0, 60}
DemandVals == {0, 40}
SkuVals == {"NC001"}
CapVals == {0, 50}
MultVals == {0, 200, 350}
Days == {0, 1}

FileHeaderOnly == << Header >>

FileOneRow ==
  << Header,
     << "PC001", "Delhi", "Snacks", "10", "40", "60", "30", "12.5", "0.25",
        "50.0", "7", "90", " true " >> >>

FileDefaults ==
  << Header,
     << "NC001", "Mumbai" >>,
     << "", "", "", "x", "0", "", "25", "abc", "0", "", "0", "", "no" >> >>

FileNegative ==
  << Header,
     << "RM001", "Kolkata", "Other", "-4", "40", "0", "30", "12.5", "0.3",
        "50.0", "5", "90", "true" >> >>

\* ten complete data lines, told apart by their sku
FileTenRows ==
  << Header >> \o
  [i \in 1..10 |->
     << << "R01", "R02", "R03", "R04", "R05", "R06", "R07", "R08", "R09", "R10" >>[i],
        "Delhi", "Snacks", "10", "40", "60", "30", "12.5", "0.25", "50.0", "7",
        "90", "false" >>]

\* two complete lines around a short one, and the empty line a final newline leaves
FileGap ==
  << Header, FileOneRow[2], << "NC001", "Mumbai", "Snacks" >>, FileNegative[2],
     << "" >> >>

Files == {FileHeaderOnly, FileOneRow, FileDefaults, FileNegative}

\* the files of the loader on its own
CsvFiles == Files \cup {FileTenRows, FileGap}

\* ------------------------------------------------------------- objects
NoObj == [free |-> TRUE]

ObjIds == 1..MaxObj

\* the records behind an array of object ids
Deref(ids, h) == [i \in DOMAIN ids |-> h[ids[i]]]

Range(q) == {q[i] : i \in DOMAIN q}

\* the objects some array or closure still holds
Reachable(inv, tm, an) ==
  Range(inv)
    \cup UNION {Range(t.inv) : t \in tm}
    \cup (IF an = Null THEN {} ELSE Range(an.criticalShortages))

\* garbage collection: an object nothing holds any more is gone
Collect(h, inv, tm, an) ==
  [o \in ObjIds |-> IF o \in Reachable(inv, tm, an) THEN h[o] ELSE NoObj]

\* the ids of n new objects
NewIds(n) ==
  LET free == {o \in ObjIds : heap[o] = NoObj}
  IN [i \in 1..n |->
        CHOOSE o \in free : Cardinality({x \in free : x < o}) = i - 1]

CanAllocate(n) == Cardinality({o \in ObjIds : heap[o] = NoObj}) >= n

\* a closure: what a pending callback captured from the render that made it
Timer(kind, inv, plan, sups, mult, acc, file) ==
  [ kind |-> kind, inv |-> inv, plan |-> plan, sups |-> sups, mult |-> mult,
    acc |-> acc, file |-> file ]

\* ------------------------------------------------------- initial state
InitialSkus ==
  << [ sku |-> "PC001", warehouse |-> "Delhi", product_category |-> "Snacks",
       current_stock |-> 10, forecast_demand |-> 40, actual_demand |-> 60,
       production_capacity |-> 30, unit_cost |-> 155, holding_cost_rate |-> 25,
       stockout_penalty |-> 500, lead_time_days |-> 7, shelf_life_days |-> 90,
       is_festival_sensitive |-> TRUE ],
     [ sku |-> "NC001", warehouse |-> "Mumbai", product_category |-> "Snacks",
       current_stock |-> 25, forecast_demand |-> 25, actual_demand |-> 20,
       production_capacity |-> 25, unit_cost |-> 182, holding_cost_rate |-> 25,
       stockout_penalty |-> 450, lead_time_days |-> 5, shelf_life_days |-> 120,
       is_festival_sensitive |-> FALSE ] >>

InitialFactories ==
  << [ factory_location |-> "Delhi", weekly_capacity |-> 100,
       efficiency_rate |-> 85, production_cost_per_unit |-> 123 ],
     [ factory_location |-> "Pune", weekly_capacity |-> 80,
       efficiency_rate |-> 90, production_cost_per_unit |-> 119 ] >>

InitialSuppliers ==
  << [ supplier_id |-> "SUP001", material_type |-> "flour", reliability_score |-> 92,
       lead_time_days |-> 5, moq |-> 500, unit_price |-> 25, quality_rating |-> 85 ],
     [ supplier_id |-> "SUP002", material_type |-> "oil", reliability_score |-> 78,
       lead_time_days |-> 8, moq |-> 200, unit_price |-> 58, quality_rating |-> 72 ] >>

Init ==
  /\ heap = [o \in ObjIds |-> IF o <= 2 THEN InitialSkus[o] ELSE NoObj]
  /\ inventoryData = << 1, 2 >>
  /\ productionConstraints = InitialFactories
  /\ suppliers = InitialSuppliers
  /\ festivalMultiplier = 145
  /\ analysisData = Null
  /\ optimizedData = Null
  /\ festivalPlan = Null
  /\ isAnalyzing = FALSE
  /\ isOptimizing = FALSE
  /\ timers = {}
  /\ optRead = Null
  /\ pendingAtUpload = {}
  /\ edits = 0


\* ------------------------------------------------------ record editing
\* what the render shows: buttons and their `disabled` / conditional rendering
AnalyzeButtonEnabled == Len(inventoryData) > 0 /\ ~isAnalyzing

OptimizeButtonEnabled ==
  Len(inventoryData) > 0 /\ analysisData # Null /\ ~isOptimizing

\* the planning button without its `disabled` attribute
PlanButtonAlwaysEnabled == TRUE

PlanButtonEnabled == ~isOptimizing

\* the remove button rendered without its length test
RemoveButtonAlwaysShown == TRUE

RemoveButtonShown == Len(inventoryData) > 1

\* capacityUtilization={optimizedData?.performanceMetrics?.capacityUtilization || 0}
capacityUtilizationProp ==
  IF optimizedData = Null THEN 0
  ELSE OrDefault(optimizedData.performanceMetrics.capacityUtilization, 0)

\* OptimizationExtras: the Capacity Warning block, {capacityUtilization > 100 && ...}
CapacityWarningShown == capacityUtilizationProp > 10000


\* updateInventoryItem(index, field, value): a new array over the same objects,
\* and the field written into the object itself
updateInventoryItem(index, field, value) ==
  /\ index \in DOMAIN inventoryData
  /\ heap[inventoryData[index]][field] # value
  /\ heap' = [heap EXCEPT ![inventoryData[index]][field] = value]
  /\ UNCHANGED << inventoryData, productionConstraints, suppliers,
                  festivalMultiplier, analysisData, optimizedData, festivalPlan,
                  isAnalyzing, isOptimizing, timers, optRead, pendingAtUpload >>

\* the inputs of the manual entry table
EditSku ==
  \E index \in 1..MaxSkus :
    \/ \E v \in SkuVals : updateInventoryItem(index, "sku", v)
    \/ \E v \in StockVals : updateInventoryItem(index, "current_stock", v)
    \/ \E v \in DemandVals : updateInventoryItem(index, "forecast_demand", v)
    \/ \E v \in DemandVals : updateInventoryItem(index, "actual_demand", v)
    \/ \E v \in BOOLEAN : updateInventoryItem(index, "is_festival_sensitive", v)

\* addInventoryItem
addInventoryItem ==
  /\ Len(inventoryData) < MaxSkus
  /\ CanAllocate(1)
  /\ LET o == NewIds(1)[1]
         newItem ==
           [ sku |-> SkuName(Len(inventoryData) + 1), warehouse |-> "Delhi",
             product_category |-> "Snacks", current_stock |-> 0,
             forecast_demand |-> 0, actual_demand |-> 0,
             production_capacity |-> 0, unit_cost |-> 100,
             holding_cost_rate |-> 25, stockout_penalty |-> 500,
             lead_time_days |-> 7, shelf_life_days |-> 90,
             is_festival_sensitive |-> FALSE ]
     IN /\ inventoryData' = Append(inventoryData, o)
        /\ heap' = [heap EXCEPT ![o] = newItem]
  /\ UNCHANGED << productionConstraints, suppliers, festivalMultiplier,
                  analysisData, optimizedData, festivalPlan, isAnalyzing,
                  isOptimizing, timers, optRead, pendingAtUpload >>

\* the remove button of a row: inventoryData.filter((_, i) => i !== index)
removeInventoryItem ==
  \E index \in DOMAIN inventoryData :
    /\ RemoveButtonShown
    /\ inventoryData' =
         [i \in 1..(Len(inventoryData) - 1) |->
            IF i < index THEN inventoryData[i] ELSE inventoryData[i + 1]]
    /\ heap' = Collect(heap, inventoryData', timers, analysisData)
    /\ UNCHANGED << productionConstraints, suppliers, festivalMultiplier,
                    analysisData, optimizedData, festivalPlan, isAnalyzing,
                    isOptimizing, timers, optRead, pendingAtUpload >>

\* the weekly_capacity input: updated[index].weekly_capacity = parseInt(v) || 0
editWeeklyCapacity ==
  \E index \in DOMAIN productionConstraints, v \in CapVals :
    /\ productionConstraints[index].weekly_capacity # v
    /\ productionConstraints' =
         [productionConstraints EXCEPT ![index].weekly_capacity = OrDefault(v, 0)]
    /\ UNCHANGED << heap, inventoryData, suppliers, festivalMultiplier,
                    analysisData, optimizedData, festivalPlan, isAnalyzing,
                    isOptimizing, timers, optRead, pendingAtUpload >>

\* the Add Supplier button
addSupplier ==
  /\ Len(suppliers) < MaxSuppliers
  /\ suppliers' = Append(suppliers,
       [ supplier_id |-> << "SUP001", "SUP002", "SUP003", "SUP004", "SUP005" >>
                           [Len(suppliers) + 1],
         material_type |-> "new_material", reliability_score |-> 80,
         lead_time_days |-> 7, moq |-> 100, unit_price |-> 100,
         quality_rating |-> 80 ])
  /\ UNCHANGED << heap, inventoryData, productionConstraints, festivalMultiplier,
                  analysisData, optimizedData, festivalPlan, isAnalyzing,
                  isOptimizing, timers, optRead, pendingAtUpload >>

\* the multiplier input: setFestivalMultiplier(parseFloat(v) || 1.45)
editFestivalMultiplier ==
  \E v \in MultVals :
    /\ festivalMultiplier # OrDefault(v, 145)
    /\ festivalMultiplier' = OrDefault(v, 145)
    /\ UNCHANGED << heap, inventoryData, productionConstraints, suppliers,
                    analysisData, optimizedData, festivalPlan, isAnalyzing,
                    isOptimizing, timers, optRead, pendingAtUpload >>

\* handleFileUpload: clears both results and starts the FileReader
handleFileUpload(file) ==
  /\ analysisData' = Null
  /\ optimizedData' = Null
  /\ timers' = timers \cup
       {Timer("read", << >>, Null, << >>, 0, 0, file)}
  /\ heap' = Collect(heap, inventoryData, timers', analysisData')
  /\ pendingAtUpload' =
       pendingAtUpload \cup {t \in timers : t.kind \in {"analysis", "opt"}}
  /\ UNCHANGED << inventoryData, productionConstraints, suppliers,
                  festivalMultiplier, festivalPlan, isAnalyzing, isOptimizing,
                  optRead >>

\* reader.onload of parseCSVFile: setInventoryData(parsedData)
readerOnLoad ==
  \E t \in timers :
    /\ t.kind = "read"
    /\ LET parsedData == ParseLines(t.file)
           ids == NewIds(Len(parsedData))
       IN /\ CanAllocate(Len(parsedData))
          /\ inventoryData' = ids
          /\ timers' = timers \ {t}
          /\ heap' = Collect(
               [o \in ObjIds |->
                  IF \E i \in DOMAIN ids : ids[i] = o
                  THEN parsedData[CHOOSE i \in DOMAIN ids : ids[i] = o]
                  ELSE heap[o]],
               inventoryData', timers', analysisData)
    /\ UNCHANGED << productionConstraints, suppliers, festivalMultiplier,
                    analysisData, optimizedData, festivalPlan, isAnalyzing,
                    isOptimizing, optRead, pendingAtUpload, edits >>


\* ---------------------------------------------------------------- runs
\* handleSupplyChainAnalysis up to setTimeout: the callback closes over the
\* arrays and the memoised accuracy of this render
requestAnalysis ==
  /\ AnalyzeButtonEnabled
  /\ isAnalyzing' = TRUE
  /\ timers' = timers \cup
       {Timer("analysis", inventoryData, Null, suppliers, festivalMultiplier,
              dynamicForecastAccuracy(Deref(inventoryData, heap)), << >>)}
  /\ UNCHANGED << heap, inventoryData, productionConstraints, suppliers,
                  festivalMultiplier, analysisData, optimizedData, festivalPlan,
                  isOptimizing, optRead, pendingAtUpload, edits >>

\* as analysisDone, but without setIsAnalyzing(false)
analysisDoneStaysBusy ==
  \E t \in timers :
    /\ t.kind = "analysis"
    /\ analysisData' = dynamicAnalysis(t.inv, heap, t.sups, t.acc)
    /\ timers' = timers \ {t}
    /\ pendingAtUpload' = pendingAtUpload \ {t}
    /\ heap' = Collect(heap, inventoryData, timers', analysisData')
    /\ UNCHANGED << inventoryData, productionConstraints, suppliers,
                    festivalMultiplier, optimizedData, festivalPlan,
                    isAnalyzing, isOptimizing, optRead, edits >>

\* the timer callback of handleSupplyChainAnalysis
analysisDone ==
  \E t \in timers :
    /\ t.kind = "analysis"
    /\ analysisData' = dynamicAnalysis(t.inv, heap, t.sups, t.acc)
    /\ isAnalyzing' = FALSE
    /\ timers' = timers \ {t}
    /\ pendingAtUpload' = pendingAtUpload \ {t}
    /\ heap' = Collect(heap, inventoryData, timers', analysisData')
    /\ UNCHANGED << inventoryData, productionConstraints, suppliers,
                    festivalMultiplier, optimizedData, festivalPlan,
                    isOptimizing, optRead, edits >>

\* handleSupplyChainOptimization up to setTimeout
requestOptimization ==
  /\ OptimizeButtonEnabled
  /\ isOptimizing' = TRUE
  /\ timers' = timers \cup
       {Timer("opt", inventoryData, festivalPlan, suppliers, 0, 0, << >>)}
  /\ UNCHANGED << heap, inventoryData, productionConstraints, suppliers,
                  festivalMultiplier, analysisData, optimizedData, festivalPlan,
                  isAnalyzing, optRead, pendingAtUpload, edits >>

\* what an optimization reads: the objects of its array as they are now, the
\* factory objects (edited in place, so always the current ones), and the
\* suppliers and the plan of its closure
OptimizationInput(t) ==
  [ items |-> Deref(t.inv, heap), factories |-> productionConstraints,
    sups |-> t.sups, plan |-> t.plan ]

\* history: the input of the run that completes now, and whether the run before
\* it read the same input and its result is still stored
Remember(in) ==
  [ in |-> in,
    again |-> optimizedData # Null /\ optRead # Null /\ optRead.in = in ]

\* the timer callback of handleSupplyChainOptimization
optimizationDone ==
  \E t \in timers, now \in Days :
    /\ t.kind = "opt"
    /\ LET in == OptimizationInput(t)
       IN /\ optimizedData' =
               mockOptimization(in.items, in.factories, in.sups, in.plan, now)
          /\ optRead' = Remember(in)
    /\ isOptimizing' = FALSE
    /\ timers' = timers \ {t}
    /\ pendingAtUpload' = pendingAtUpload \ {t}
    /\ heap' = Collect(heap, inventoryData, timers', analysisData)
    /\ UNCHANGED << inventoryData, productionConstraints, suppliers,
                    festivalMultiplier, analysisData, festivalPlan, isAnalyzing,
                    edits >>

\* handleFestivalPlanning up to setTimeout
requestFestivalPlanning ==
  /\ PlanButtonEnabled
  /\ isOptimizing' = TRUE
  /\ timers' = timers \cup
       {Timer("plan", inventoryData, Null, << >>, festivalMultiplier, 0, << >>)}
  /\ UNCHANGED << heap, inventoryData, productionConstraints, suppliers,
                  festivalMultiplier, analysisData, optimizedData, festivalPlan,
                  isAnalyzing, optRead, pendingAtUpload, edits >>

\* as festivalPlanningDone, but writing each festivalDemand back into its record
festivalPlanningDoneWriteBack ==
  \E t \in timers :
    /\ t.kind = "plan"
    /\ festivalPlan' =
         mockFestivalPlan(Deref(t.inv, heap), productionConstraints, t.mult)
    /\ isOptimizing' = FALSE
    /\ timers' = timers \ {t}
    /\ heap' = Collect(
         [o \in ObjIds |->
            IF \E i \in DOMAIN t.inv : t.inv[i] = o
            THEN [heap[o] EXCEPT !.forecast_demand =
                    festivalDemandOf(heap[o], currentMultiplier(t.mult))]
            ELSE heap[o]],
         inventoryData, timers', analysisData)
    /\ UNCHANGED << inventoryData, productionConstraints, suppliers,
                    festivalMultiplier, analysisData, optimizedData, isAnalyzing,
                    optRead, pendingAtUpload, edits >>

\* the timer callback of handleFestivalPlanning
festivalPlanningDone ==
  \E t \in timers :
    /\ t.kind = "plan"
    /\ festivalPlan' =
         mockFestivalPlan(Deref(t.inv, heap), productionConstraints, t.mult)
    /\ isOptimizing' = FALSE
    /\ timers' = timers \ {t}
    /\ heap' = Collect(heap, inventoryData, timers', analysisData)
    /\ UNCHANGED << inventoryData, productionConstraints, suppliers,
                    festivalMultiplier, analysisData, optimizedData, isAnalyzing,
                    optRead, pendingAtUpload, edits >>

\* one more edit of the record store, while the exploration allows it
CountedEdit == edits < MaxEdits /\ edits' = edits + 1

Next ==
  \/ CountedEdit /\ EditSku
  \/ CountedEdit /\ addInventoryItem
  \/ CountedEdit /\ removeInventoryItem
  \/ CountedEdit /\ editWeeklyCapacity
  \/ CountedEdit /\ addSupplier
  \/ CountedEdit /\ editFestivalMultiplier
  \/ CountedEdit /\ \E file \in Files : handleFileUpload(file)
  \/ readerOnLoad
  \/ requestAnalysis
  \/ analysisDone
  \/ requestOptimization
  \/ optimizationDone
  \/ requestFestivalPlanning
  \/ festivalPlanningDone

Spec == Init /\ [][Next]_vars

\* ------------------------------------------------ runs under scheduling
\* The runs over the default records or an uploaded file.  setTimeout and
\* FileReader callbacks do run: a pending callback is not postponed for ever.
LiveNext ==
  \/ CountedEdit /\ \E file \in Files : handleFileUpload(file)
  \/ readerOnLoad
  \/ requestAnalysis
  \/ analysisDone
  \/ requestOptimization
  \/ optimizationDone
  \/ requestFestivalPlanning
  \/ festivalPlanningDone

\* a pending callback of the given kind runs (and so leaves the timers)
CallbackRuns(kind) == \E t \in timers : t.kind = kind /\ timers' = timers \ {t}

LiveSpec ==
  /\ Init
  /\ [][LiveNext]_vars
  /\ WF_timers(CallbackRuns("analysis"))
  /\ WF_timers(CallbackRuns("opt"))
  /\ WF_timers(CallbackRuns("plan"))
  /\ WF_timers(CallbackRuns("read"))

\* ------------------------------------------- the manual entry table alone
\* Add SKU, the remove button and the current_stock input, in any order and
\* any number of times, from the default records
StoreNext ==
  \/ UNCHANGED edits /\ addInventoryItem
  \/ UNCHANGED edits /\ removeInventoryItem
  \/ UNCHANGED edits /\ \E index \in 1..MaxSkus, v \in StockVals :
                          updateInventoryItem(index, "current_stock", v)

StoreSpec == Init /\ [][StoreNext]_vars

\* ------------------------------------------- the engine on drawn inputs
\* The optimizer and the planner as batch transforms of a record store: the
\* handler and its callback run back to back, on inputs drawn from the sets
\* below (any number of SKUs, factories and suppliers, a plan that may have
\* been computed from records that have changed since).
EngineSku1(stock, forecast) ==
  [InitialSkus[1] EXCEPT !.current_stock = stock, !.forecast_demand = forecast]

EngineSku2(stock) == [InitialSkus[2] EXCEPT !.current_stock = stock]

EngineSkuSets ==
  {<< >>}
    \cup {<< EngineSku1(st, f) >> : st \in {0, 10, 60}, f \in {0, 40}}
    \cup {<< EngineSku1(st, f), EngineSku2(s2) >> :
            st \in {0, 10, 60}, f \in {0, 40}, s2 \in {0, 25}}
    \cup {<< EngineSku1(0, 100) >>}

EngineFactory(i, cap) ==
  [ factory_location |-> << "Delhi", "Pune", "Kolkata", "Chennai" >>[i],
    weekly_capacity |-> cap, efficiency_rate |-> 85,
    production_cost_per_unit |-> << 123, 119, 121, 125 >>[i] ]

EngineFactorySets ==
  { [i \in DOMAIN caps |-> EngineFactory(i, caps[i])] :
      caps \in { << >>, << 100 >>, << 0 >>, << 100, 80 >>, << 0, 0 >>,
                 << 0, 100 >>, << 50, 50, 50 >>, << 1, 50, 50, 50 >> } }

EngineSupplierSets == {<< >>, InitialSuppliers}

EngineMultipliers == {145, 200}

\* the plan left by an earlier planning run over records that have changed since
EnginePriorPlans(factories) ==
  {Null}
    \cup {mockFestivalPlan(items, factories, 145) :
            items \in {<< EngineSku1(10, 0) >>, << EngineSku2(25) >>}}

EngineInit ==
  \E items \in EngineSkuSets, factories \in EngineFactorySets,
     sups \in EngineSupplierSets, m \in EngineMultipliers :
    /\ heap = [o \in ObjIds |-> IF o <= Len(items) THEN items[o] ELSE NoObj]
    /\ inventoryData = [i \in 1..Len(items) |-> i]
    /\ productionConstraints = factories
    /\ suppliers = sups
    /\ festivalMultiplier = m
    /\ festivalPlan \in EnginePriorPlans(factories)
    /\ analysisData = Null
    /\ optimizedData = Null
    /\ isAnalyzing = FALSE
    /\ isOptimizing = FALSE
    /\ timers = {}
    /\ optRead = Null
    /\ pendingAtUpload = {}
    /\ edits = 0

\* handleFestivalPlanning and its callback
EnginePlan ==
  /\ festivalPlan' = mockFestivalPlan(Deref(inventoryData, heap),
                                      productionConstraints, festivalMultiplier)
  /\ UNCHANGED << heap, inventoryData, productionConstraints, suppliers,
                  festivalMultiplier, analysisData, optimizedData, isAnalyzing,
                  isOptimizing, timers, optRead, pendingAtUpload, edits >>

\* handleSupplyChainOptimization and its callback
EngineOptimize ==
  \E now \in Days :
    LET in == OptimizationInput(
                Timer("opt", inventoryData, festivalPlan, suppliers, 0, 0, << >>))
    IN /\ optimizedData' =
            mockOptimization(in.items, in.factories, in.sups, in.plan, now)
       /\ optRead' = Remember(in)
       /\ UNCHANGED << heap, inventoryData, productionConstraints, suppliers,
                       festivalMultiplier, analysisData, festivalPlan,
                       isAnalyzing, isOptimizing, timers, pendingAtUpload,
                       edits >>

EngineNext == EnginePlan \/ EngineOptimize

EngineSpec == EngineInit /\ [][EngineNext]_vars

\* ------------------------------------------ the reporter on drawn inputs
\* record stores for the reporter: stocks on both sides of 0.3 and 0.5 of the
\* actual demand, forecasts above, below and at 0
ReporterSku1(stock, forecast, actual) ==
  [InitialSkus[1] EXCEPT !.current_stock = stock, !.forecast_demand = forecast,
                         !.actual_demand = actual]

ReporterSkuSets ==
  {<< >>}
    \cup {<< ReporterSku1(st, f, a) >> :
            st \in {0, 10, 25, 60}, f \in {0, 40, 100}, a \in {0, 60}}
    \cup {<< ReporterSku1(st, f, a), EngineSku2(s2) >> :
            st \in {0, 10, 25, 60}, f \in {0, 40, 100}, a \in {0, 60},
            s2 \in {0, 8, 10, 25}}

ReporterInit ==
  \E items \in ReporterSkuSets, sups \in EngineSupplierSets :
    /\ heap = [o \in ObjIds |-> IF o <= Len(items) THEN items[o] ELSE NoObj]
    /\ inventoryData = [i \in 1..Len(items) |-> i]
    /\ productionConstraints = InitialFactories
    /\ suppliers = sups
    /\ festivalMultiplier = 145
    /\ festivalPlan = Null
    /\ analysisData = Null
    /\ optimizedData = Null
    /\ isAnalyzing = FALSE
    /\ isOptimizing = FALSE
    /\ timers = {}
    /\ optRead = Null
    /\ pendingAtUpload = {}
    /\ edits = 0

\* handleSupplyChainAnalysis and its callback
ReporterAnalyze ==
  /\ AnalyzeButtonEnabled
  /\ analysisData' =
       dynamicAnalysis(inventoryData, heap, suppliers,
                       dynamicForecastAccuracy(Deref(inventoryData, heap)))
  /\ heap' = Collect(heap, inventoryData, timers, analysisData')
  /\ UNCHANGED << inventoryData, productionConstraints, suppliers,
                  festivalMultiplier, optimizedData, festivalPlan, isAnalyzing,
                  isOptimizing, timers, optRead, pendingAtUpload, edits >>

ReporterNext == ReporterAnalyze

ReporterSpec == ReporterInit /\ [][ReporterNext]_vars

\* ------------------------------------------------- the loader on its own
\* files are uploaded and read, in any order and any number at a time
CsvNext ==
  \/ UNCHANGED edits /\ \E file \in CsvFiles : handleFileUpload(file)
  \/ readerOnLoad

CsvSpec == Init /\ [][CsvNext]_vars




\* ================================================================ claims
\* What the properties below read of a completed optimization run.
RunItems == optRead.in.items
RunFactories == optRead.in.factories
RunPlan == optRead.in.plan
RunDone == optimizedData # Null /\ optRead # Null

\* sum of a field over a sequence of records, as JavaScript adds (NaN absorbs)
FieldSum(q, field) ==
  LET acc[i \in 0..Len(q)] ==
        IF i = 0 THEN 0
        ELSE IF acc[i-1] = NaN \/ q[i][field] = NaN THEN NaN
             ELSE acc[i-1] + q[i][field]
  IN acc[Len(q)]

\* P = max(0, sum of optimalInventory - sum of current_stock), from the result rows
RequirementP ==
  LET d == FieldSum(optimizedData.inventoryOptimization, "optimalInventory")
             - FieldSum(optimizedData.inventoryOptimization, "currentStock")
  IN IF d > 0 THEN d ELSE 0

\* C1: allocation conservation: in every optimization result the sum of
\* allocatedDemand is at most the sum of weekly_capacity and at most P, and
\* equals P whenever the sum of weekly_capacity is at least P.
C1_AllocationConservation ==
  RunDone =>
    LET allocated == FieldSum(optimizedData.productionAllocation, "allocatedDemand")
        capacity == FieldSum(RunFactories, "weekly_capacity")
    IN /\ allocated # NaN
       /\ allocated <= capacity
       /\ allocated <= RequirementP
       /\ (capacity >= RequirementP => allocated = RequirementP)

\* C2: non-negativity: every allocatedDemand is >= 0 and every factory with
\* weekly_capacity > 0 has utilizationRate in [0, 100], after the proportional
\* pass and after the redistribution pass.
C2_NonNegativity ==
  RunDone =>
    \A pass \in { ProportionalPass(RunFactories, RequirementP).alloc,
                  optimizedData.productionAllocation } :
      \A i \in DOMAIN pass :
        /\ pass[i].allocatedDemand # NaN
        /\ pass[i].allocatedDemand >= 0
        /\ pass[i].capacity > 0 =>
             /\ pass[i].utilizationRate # NaN
             /\ pass[i].utilizationRate >= 0
             /\ pass[i].utilizationRate <= 10000


\* the entry of the plan for a sku, as the claim names it: the first with that sku
PlanEntries(plan, sku) ==
  IF plan = Null THEN {}
  ELSE {k \in DOMAIN plan.demandForecast : plan.demandForecast[k].sku = sku}

\* the demand the claims call d: festivalDemand of the plan's entry, else forecast
ClaimDemand(item, plan) ==
  IF PlanEntries(plan, item.sku) = {} THEN item.forecast_demand
  ELSE LET first == CHOOSE k \in PlanEntries(plan, item.sku) :
                      \A j \in PlanEntries(plan, item.sku) : k <= j
       IN plan.demandForecast[first].festivalDemand

\* C3: demand precedence: the policy row of every SKU is computed from the
\* festivalDemand of the plan's entry for that sku when the plan the run read has
\* one (also when that festivalDemand is 0), and from forecast_demand otherwise.
C3_DemandPrecedence ==
  RunDone =>
    \A i \in DOMAIN RunItems :
      LET d == ClaimDemand(RunItems[i], RunPlan)
          row == optimizedData.inventoryOptimization[i]
      IN /\ row.optimalInventory = (12 * d + 5) \div 10
         /\ row.safetyStock = (3 * d + 5) \div 10
         /\ row.reorderPoint = (8 * d + 5) \div 10
         /\ row.recommendation =
              (IF RunItems[i].current_stock < d THEN "INCREASE" ELSE "OPTIMIZE")

\* C3 witness: a run read a plan whose entry for a SKU holds festivalDemand 0
\* while the SKU's forecast is positive, and another run read no plan at all
C3_Witness ==
  /\ RunDone
  /\ \E i \in DOMAIN RunItems :
       /\ PlanEntries(RunPlan, RunItems[i].sku) # {}
       /\ ClaimDemand(RunItems[i], RunPlan) = 0
       /\ RunItems[i].forecast_demand > 0
       /\ optimizedData.inventoryOptimization[i].optimalInventory = 0

C5_ZeroCapacityGuard ==
  (RunDone /\ FieldSum(RunFactories, "weekly_capacity") = 0)
    => optimizedData.performanceMetrics.capacityUtilization = 0

\* C6: a factory whose weekly_capacity is 0 gets allocatedDemand 0 and
\* utilizationRate 0.
C6_ZeroCapacityFactory ==
  RunDone =>
    \A i \in DOMAIN optimizedData.productionAllocation :
      optimizedData.productionAllocation[i].capacity = 0 =>
        /\ optimizedData.productionAllocation[i].allocatedDemand = 0
        /\ optimizedData.productionAllocation[i].utilizationRate = 0


\* the claim's totalCost, in thousandths: production, holding and procurement
\* cost of the run, added as JavaScript adds
ClaimTotalCost ==
  LET production ==
        SumOver([ix \in 1..Len(optimizedData.productionAllocation) |-> LET a == optimizedData.productionAllocation[ix] IN IF a.allocatedDemand = NaN THEN NaN
          ELSE a.allocatedDemand * costPerUnitOf(RunFactories, a.factory) * 100])
      holding ==
        SumOver([ix \in 1..Len(RunItems) |-> LET it == RunItems[ix] IN it.current_stock * it.unit_cost * it.holding_cost_rate])
      procurement ==
        SumOver([ix \in 1..Len(optRead.in.sups) |-> LET su == optRead.in.sups[ix] IN su.moq * su.unit_price * 100])
  IN IF production = NaN THEN NaN ELSE production + holding + procurement

\* C7: the demand-based metrics equal their reference definitions over the
\* effective demand d: serviceLevel = sum(min(stock, d)) / sum(d) * 100, or 100
\* when sum(d) = 0; inventoryTurnover = sum(d) / sum(stock), or 0 when
\* sum(stock) = 0; costEfficiency = sum(d) * 15 / totalCost * 100, or 0 when
\* totalCost = 0; zero suppliers and zero SKUs give totalCost 0, costEfficiency 0.
C7_DemandMetrics ==
  RunDone =>
    LET D == SumOver([ix \in 1..Len(RunItems) |-> LET it == RunItems[ix] IN ClaimDemand(it, RunPlan)])
        F == SumOver([ix \in 1..Len(RunItems) |-> LET it == RunItems[ix] IN IF it.current_stock <= ClaimDemand(it, RunPlan)
               THEN it.current_stock ELSE ClaimDemand(it, RunPlan)])
        S == SumOver([ix \in 1..Len(RunItems) |-> LET it == RunItems[ix] IN it.current_stock])
        T == ClaimTotalCost
        pm == optimizedData.performanceMetrics
    IN /\ pm.serviceLevel =
            (IF D = 0 THEN 10000 ELSE (2 * 10000 * F + D) \div (2 * D))
       /\ pm.inventoryTurnover =
            (IF S = 0 THEN 0 ELSE (2 * 100 * D + S) \div (2 * S))
       /\ pm.costEfficiency =
            (IF T = 0 THEN 0 ELSE IF T = NaN THEN NaN ELSE ScaledRound(15 * D, 7, T))
       /\ (RunItems = << >> /\ optRead.in.sups = << >>) =>
            /\ optimizedData.costAnalysis.totalSupplyChainCost = 0
            /\ pm.costEfficiency = 0

\* the scenario of C8: the one SKU, the one factory, and a plan made from them
\* with multiplier 1.45
C8_Scenario ==
  /\ RunDone
  /\ Len(RunItems) = 1
  /\ RunItems[1].current_stock = 10
  /\ RunItems[1].forecast_demand = 40
  /\ RunItems[1].is_festival_sensitive
  /\ Len(RunFactories) = 1
  /\ RunFactories[1].weekly_capacity = 100
  /\ festivalMultiplier = 145
  /\ RunPlan # Null
  /\ RunPlan = festivalPlan
  /\ Len(RunPlan.demandForecast) = 1
  /\ RunPlan.demandForecast[1].sku = RunItems[1].sku
  /\ RunPlan.demandForecast[1].baseDemand = 40
  /\ RunPlan.demandForecast[1].surgeFactor = 145

\* C8: in that scenario festivalDemand is 58, optimalInventory 70, the
\* recommendation INCREASE, P = 60, the single factory is allocated 60 and its
\* utilizationRate is 60.
C8_EndToEnd ==
  C8_Scenario =>
    /\ RunPlan.demandForecast[1].festivalDemand = 58
    /\ optimizedData.inventoryOptimization[1].optimalInventory = 70
    /\ optimizedData.inventoryOptimization[1].recommendation = "INCREASE"
    /\ RequirementP = 60
    /\ Len(optimizedData.productionAllocation) = 1
    /\ optimizedData.productionAllocation[1].allocatedDemand = 60
    /\ optimizedData.productionAllocation[1].utilizationRate = 6000

\* C8 witness: the scenario has been run
C8_Witness == C8_Scenario /\ optimizedData.productionAllocation[1].capacity = 100

\* the pending callbacks of handleSupplyChainOptimization / handleFestivalPlanning
InFlight(kind) == {t \in timers : t.kind = kind}

\* C9: planning and optimization are never in flight together; isOptimizing is
\* true exactly while one of them is; and the plan a pending optimization will
\* read is the stored plan, which therefore cannot change under it.
C9_PlanSnapshot ==
  /\ Cardinality(InFlight("opt") \cup InFlight("plan")) <= 1
  /\ isOptimizing <=> (InFlight("opt") \cup InFlight("plan") # {})
  /\ \A t \in InFlight("opt") : t.plan = festivalPlan

\* C9 witness: an optimization is in flight over a stored plan
C9_Witness ==
  \E t \in InFlight("opt") : t.plan # Null /\ festivalPlan # Null

\* what a stored analysis result shows: its criticalShortages are the records
\* themselves
AnalysisContents ==
  IF analysisData = Null THEN Null
  ELSE [analysisData EXCEPT !.criticalShortages = Deref(@, heap)]

\* C10: a stored artifact changes only by being replaced by a completing run or
\* cleared by an upload; no edit of a record changes a value inside it.
C10_ArtifactsImmutable ==
  [][ /\ AnalysisContents' # AnalysisContents
        => (analysisData' = Null \/ (isAnalyzing /\ ~isAnalyzing'))
      /\ festivalPlan' # festivalPlan => InFlight("plan") # {}
      /\ optimizedData' # optimizedData
        => (optimizedData' = Null \/ InFlight("opt") # {})
    ]_vars

\* the sku values of the SKU collection, in order
SkuColumn == [i \in DOMAIN inventoryData |-> heap[inventoryData[i]].sku]

\* C12: SKU identities stay unique: from the default records, after any sequence
\* of Add SKU and record removals, the sku values of the records are pairwise
\* distinct and non-empty.
C12_SkuUnique ==
  \A i, j \in DOMAIN SkuColumn :
    /\ SkuColumn[i] # ""
    /\ (i # j => SkuColumn[i] # SkuColumn[j])

\* C13: explicit removal leaves at least one record: a step that shortens the
\* SKU collection starts from more than one record and removes exactly one, so
\* after any sequence of manual add, edit and remove the collection is non-empty.
C13_RemovalLeavesOne ==
  /\ [](Len(inventoryData) >= 1)
  /\ [][ Len(inventoryData') < Len(inventoryData)
          => /\ Len(inventoryData) > 1
             /\ Len(inventoryData') = Len(inventoryData) - 1 ]_vars

\* C13 witness: both default records were removed after a record was added, and
\* the one record left can no longer be removed
C13_Witness ==
  /\ Len(inventoryData) = 1
  /\ SkuColumn[1] = "SKU-3"
  /\ ~RemoveButtonShown

\* the record store: the SKU records, the factories, the suppliers, the multiplier
RecordStore ==
  << Deref(inventoryData, heap), productionConstraints, suppliers,
     festivalMultiplier >>

\* the pending callbacks of the three runs
RunTimers == InFlight("analysis") \cup InFlight("opt") \cup InFlight("plan")

\* C11: the engine only reads the record store: a step that requests or
\* completes an analysis, a festival planning or an optimization leaves the SKU
\* records, the factories, the suppliers and the multiplier unchanged.
C11_EngineOnlyReads ==
  [][ RunTimers' # RunTimers => RecordStore' = RecordStore ]_vars

\* C11 witness: all three runs have completed over the default records, which
\* are still as they were
C11_Witness ==
  /\ analysisData # Null
  /\ festivalPlan # Null
  /\ optimizedData # Null
  /\ RunTimers = {}
  /\ RecordStore = << InitialSkus, InitialFactories, InitialSuppliers, 145 >>

\* C14: the multiplier used by every festival plan computation lies in
\* [1.0, 3.0]: the surge factor a stored plan applied to a festival-sensitive
\* SKU, and the capacity it asks of every factory, come from a multiplier in range.
C14_MultiplierInRange ==
  festivalPlan # Null =>
    /\ \A k \in DOMAIN festivalPlan.demandForecast :
         /\ festivalPlan.demandForecast[k].surgeFactor >= 100
         /\ festivalPlan.demandForecast[k].surgeFactor <= 300
    /\ \A k \in DOMAIN festivalPlan.productionSchedule :
         LET row == festivalPlan.productionSchedule[k]
         IN \E m \in 100..300 :
              row.festivalCapacityNeeded = (2 * row.weeklyCapacity * m + 100) \div 200

\* the data rows of a file as the claim counts them: every line after the header
\* that has at least as many fields as the header
DataLines(file) == SelectSeq(Tail(file), LAMBDA l : Len(l) >= Len(file[1]))

\* a numeric field as the claim defines it: the parsed value when the text parses
\* to a number (0 included), the default otherwise
ParsedOrDefault(parsed, dflt) == IF parsed = NaN THEN dflt ELSE parsed

\* the record the claim expects of a data row (costs in tenths, rate in hundredths)
ExpectedRow(v) ==
  [ current_stock |-> ParsedOrDefault(parseInt(v[4]), 0),
    forecast_demand |-> ParsedOrDefault(parseInt(v[5]), 0),
    actual_demand |-> ParsedOrDefault(parseInt(v[6]), 0),
    production_capacity |-> ParsedOrDefault(parseInt(v[7]), 0),
    unit_cost |-> ParsedOrDefault(parseFloat(v[8]), 10000) \div 100,
    holding_cost_rate |-> ParsedOrDefault(parseFloat(v[9]), 250) \div 10,
    stockout_penalty |-> ParsedOrDefault(parseFloat(v[10]), 50000) \div 100,
    lead_time_days |-> ParsedOrDefault(parseInt(v[11]), 7),
    shelf_life_days |-> ParsedOrDefault(parseInt(v[12]), 90) ]

\* C15: CSV field defaulting: when a file has been read, the SKU collection holds
\* one record per data row, and each numeric field of each record is the value
\* parsed from its text when the text parses to a number (0 included) and the
\* documented default exactly when it does not.
C15_CsvDefaulting ==
  [][ \A t \in InFlight("read") :
        t \notin timers' =>
          LET rows == DataLines(t.file)
              parsed == Deref(inventoryData', heap')
          IN /\ Len(parsed) = Len(rows)
             /\ \A k \in DOMAIN rows :
                  \A f \in DOMAIN ExpectedRow(rows[k]) :
                    parsed[k][f] = ExpectedRow(rows[k])[f] ]_vars

\* C16: data-model invariant: every SKU record's current_stock, forecast_demand,
\* actual_demand and production_capacity, and every factory's weekly_capacity,
\* is an integer >= 0.
C16_NonNegativeIntegers ==
  /\ \A i \in DOMAIN inventoryData :
       \A f \in {"current_stock", "forecast_demand", "actual_demand",
                  "production_capacity"} :
         heap[inventoryData[i]][f] \in Nat
  /\ \A i \in DOMAIN productionConstraints :
       productionConstraints[i].weekly_capacity \in Nat

\* C17: no run is fatal: every requested analysis, festival planning and
\* optimization eventually completes, its result is then stored and its busy
\* flag clear; and whenever no run is pending both busy flags are clear, so a
\* later run can be requested.
C17_NoRunFatal ==
  /\ (InFlight("analysis") # {}) ~> (~isAnalyzing /\ analysisData # Null)
  /\ (InFlight("opt") # {}) ~> (~isOptimizing /\ optimizedData # Null)
  /\ (InFlight("plan") # {}) ~> (~isOptimizing /\ festivalPlan # Null)
  /\ [](InFlight("analysis") = {} => ~isAnalyzing)
  /\ [](InFlight("opt") \cup InFlight("plan") = {} => ~isOptimizing /\ PlanButtonEnabled)

\* C17 witness: a festival planning over an empty SKU set has completed and a
\* new run can be requested
C17_Witness ==
  /\ inventoryData = << >>
  /\ festivalPlan # Null
  /\ festivalPlan.demandForecast = << >>
  /\ RunTimers = {}
  /\ PlanButtonEnabled

\* the claims' P: max(0, sum of round(1.2 * d) - sum of current_stock) over the
\* records the run read
ClaimP ==
  LET need == SumOver([ix \in 1..Len(RunItems) |->
                         (12 * ClaimDemand(RunItems[ix], RunPlan) + 5) \div 10])
              - SumOver([ix \in 1..Len(RunItems) |-> RunItems[ix].current_stock])
  IN IF need > 0 THEN need ELSE 0

\* C18: production requirement: the run computes P = max(0, sum of
\* round(1.2 * effective demand) - sum of current_stock) over the whole SKU set,
\* and when P = 0 every factory's allocatedDemand is 0.
C18_ProductionRequirement ==
  RunDone =>
    /\ productionNeeded(RunItems, RunPlan) = ClaimP
    /\ ClaimP = 0 =>
         \A i \in DOMAIN optimizedData.productionAllocation :
           optimizedData.productionAllocation[i].allocatedDemand = 0

\* the smaller of two numbers
Least(a, b) == IF a <= b THEN a ELSE b

\* the proportional pass as the claim states it, for a positive total capacity:
\* the allocations, and what remains of P after them
ClaimProportional(caps, P) ==
  LET total == SumOver(caps)
      st[i \in 0..Len(caps)] ==
        IF i = 0 THEN [alloc |-> << >>, remaining |-> P]
        ELSE LET target == (2 * P * caps[i] + total) \div (2 * total)
                 given == Least(Least(target, caps[i]), st[i-1].remaining)
             IN [ alloc |-> Append(st[i-1].alloc, given),
                  remaining |-> st[i-1].remaining - given ]
  IN st[Len(caps)]

\* the capacities the run read, and a column of an allocation
RunCaps == [i \in DOMAIN RunFactories |-> RunFactories[i].weekly_capacity]
Allocated(alloc) == [i \in DOMAIN alloc |-> alloc[i].allocatedDemand]

\* C19: proportional pass: with a positive total capacity, each factory in input
\* order is allocated min(round(P * capacity / total), capacity, remaining) and
\* remaining is decremented by it; capacities 100 and 80 with P = 120 give 67 and
\* 53, which the redistribution pass leaves as they are.
C19_ProportionalPass ==
  (RunDone /\ SumOver(RunCaps) > 0) =>
    /\ Allocated(ProportionalPass(RunFactories, ClaimP).alloc)
         = ClaimProportional(RunCaps, ClaimP).alloc
    /\ ProportionalPass(RunFactories, ClaimP).remaining
         = ClaimProportional(RunCaps, ClaimP).remaining
    /\ (RunCaps = << 100, 80 >> /\ ClaimP = 120) =>
         /\ ClaimProportional(RunCaps, ClaimP).alloc = << 67, 53 >>
         /\ Allocated(optimizedData.productionAllocation) = << 67, 53 >>

\* C19 witness: the scenario of the claim has been run
C19_Witness ==
  /\ RunDone
  /\ RunCaps = << 100, 80 >>
  /\ ClaimP = 120
  /\ optimizedData.productionAllocation[1].allocatedDemand = 67

\* the redistribution pass as the claim states it: the leftover handed out in
\* input order, min(spare, remaining) to each factory with spare capacity
ClaimRedistribution(caps, alloc, leftover) ==
  LET st[i \in 0..Len(caps)] ==
        IF i = 0 THEN [alloc |-> alloc, remaining |-> leftover]
        ELSE LET spare == caps[i] - alloc[i]
                 extra == IF spare > 0 /\ st[i-1].remaining > 0
                          THEN Least(spare, st[i-1].remaining) ELSE 0
             IN [ alloc |-> [st[i-1].alloc EXCEPT ![i] = @ + extra],
                  remaining |-> st[i-1].remaining - extra ]
  IN st[Len(caps)].alloc

\* C20: redistribution order: what the proportional pass left over is handed
\* out in input order, min(spare, remaining) to each factory with spare
\* capacity, until nothing remains; a factory gets more than its proportional
\* allocation only if every factory before it is at its full capacity.
C20_RedistributionOrder ==
  RunDone =>
    LET p == ProportionalPass(RunFactories, ClaimP)
        before == Allocated(p.alloc)
        after == Allocated(optimizedData.productionAllocation)
    IN IF p.remaining = NaN THEN after = before
       ELSE /\ after = ClaimRedistribution(RunCaps, before, p.remaining)
            /\ \A i \in DOMAIN after :
                 after[i] > before[i] =>
                   \A j \in 1..(i-1) : after[j] = RunCaps[j]

\* C20 witness: the leftover went to the second factory, the first one being full
C20_Witness ==
  /\ RunDone
  /\ Len(RunCaps) > 1
  /\ RunCaps[1] > 0
  /\ optimizedData.productionAllocation[1].allocatedDemand = RunCaps[1]
  /\ optimizedData.productionAllocation[2].allocatedDemand
       > ProportionalPass(RunFactories, ClaimP).alloc[2].allocatedDemand
  /\ optimizedData.productionAllocation[3].allocatedDemand < RunCaps[3]

\* the names of the fields an optimization result and its parts carry
ResultFields ==
  [ result |-> {"productionAllocation", "inventoryOptimization", "procurementPlan",
                "costAnalysis", "performanceMetrics"},
    allocation |-> {"factory", "allocatedDemand", "capacity", "utilizationRate"},
    costs |-> {"totalProductionCost", "totalInventoryCost", "totalProcurementCost",
               "totalSupplyChainCost"},
    metrics |-> {"serviceLevel", "inventoryTurnover", "capacityUtilization",
                 "costEfficiency"} ]

\* C21: insufficient capacity: when the total weekly capacity is smaller than P,
\* every factory ends with allocatedDemand equal to its weekly_capacity, and the
\* remainder P - total capacity is dropped: the result has no field for it.
C21_InsufficientCapacity ==
  (RunDone /\ SumOver(RunCaps) < ClaimP) =>
    /\ \A i \in DOMAIN RunCaps :
         optimizedData.productionAllocation[i].allocatedDemand = RunCaps[i]
    /\ DOMAIN optimizedData = ResultFields.result
    /\ \A i \in DOMAIN optimizedData.productionAllocation :
         DOMAIN optimizedData.productionAllocation[i] = ResultFields.allocation
    /\ DOMAIN optimizedData.costAnalysis = ResultFields.costs
    /\ DOMAIN optimizedData.performanceMetrics = ResultFields.metrics

\* the policy row the claim states for a record and its demand d
ClaimPolicyRow(item, d) ==
  [ sku |-> item.sku,
    warehouse |-> item.warehouse,
    currentStock |-> item.current_stock,
    optimalInventory |-> (12 * d + 5) \div 10,
    safetyStock |-> (3 * d + 5) \div 10,
    reorderPoint |-> (8 * d + 5) \div 10,
    recommendation |-> IF item.current_stock < d THEN "INCREASE" ELSE "OPTIMIZE" ]

\* C22: inventory policy: the result holds one policy row per SKU record, in
\* record order, with optimalInventory = round(1.2 d), safetyStock = round(0.3 d),
\* reorderPoint = round(0.8 d) and recommendation INCREASE exactly when
\* current_stock < d, OPTIMIZE otherwise.
C22_InventoryPolicy ==
  RunDone =>
    /\ Len(optimizedData.inventoryOptimization) = Len(RunItems)
    /\ optimizedData.inventoryOptimization =
         [i \in DOMAIN RunItems |->
            ClaimPolicyRow(RunItems[i], ClaimDemand(RunItems[i], RunPlan))]

\* C22 witness: a run over two records stored an INCREASE row followed by an
\* OPTIMIZE row whose stock equals its demand
C22_Witness ==
  /\ RunDone
  /\ Len(RunItems) = 2
  /\ optimizedData.inventoryOptimization[1].recommendation = "INCREASE"
  /\ optimizedData.inventoryOptimization[1].optimalInventory > 0
  /\ optimizedData.inventoryOptimization[2].recommendation = "OPTIMIZE"
  /\ optimizedData.inventoryOptimization[2].currentStock
       = ClaimDemand(RunItems[2], RunPlan)
  /\ optimizedData.inventoryOptimization[2].sku = RunItems[2].sku

\* the plan the claim states for the records and the multiplier m of the store:
\* one entry per record, in record order
ClaimPlanHolds ==
  LET items == Deref(inventoryData, heap)
      m == festivalMultiplier
  IN /\ festivalPlan # Null
     /\ Len(festivalPlan.demandForecast) = Len(items)
     /\ Len(festivalPlan.inventoryBuildup) = Len(items)
     /\ \A i \in DOMAIN items :
          LET entry == festivalPlan.demandForecast[i]
              buildup == festivalPlan.inventoryBuildup[i]
              surge == IF items[i].is_festival_sensitive THEN m ELSE 100
              festival == (2 * items[i].forecast_demand * surge + 100) \div 200
          IN /\ entry.sku = items[i].sku
             /\ entry.surgeFactor = surge
             /\ entry.baseDemand = items[i].forecast_demand
             /\ entry.festivalDemand = festival
             /\ ~items[i].is_festival_sensitive =>
                  entry.festivalDemand = items[i].forecast_demand
             /\ buildup.sku = items[i].sku
             /\ buildup.buildupNeeded =
                  (IF festival > items[i].current_stock
                   THEN festival - items[i].current_stock ELSE 0)

\* C23: festival planner: a planning run replaces any prior plan with a plan of
\* exactly one entry per SKU record, with surgeFactor = m for a sensitive SKU and 1
\* otherwise, baseDemand = forecast_demand, festivalDemand =
\* round(forecast_demand * surgeFactor), buildupNeeded = max(0, festivalDemand -
\* current_stock), and festivalDemand = forecast_demand for a non-sensitive SKU.
C23_FestivalPlanner ==
  [][festivalPlan' # festivalPlan => ClaimPlanHolds']_vars

\* C23 witness: a run with multiplier 2.0 replaced what was there by a plan of two
\* entries, the sensitive one surged to 80 with a buildup of 70, the other at 25
C23_Witness ==
  /\ festivalPlan # Null
  /\ festivalMultiplier = 200
  /\ Len(festivalPlan.demandForecast) = 2
  /\ festivalPlan.demandForecast[1].surgeFactor = 200
  /\ festivalPlan.demandForecast[1].festivalDemand = 80
  /\ festivalPlan.inventoryBuildup[1].buildupNeeded = 70
  /\ festivalPlan.demandForecast[2].surgeFactor = 100
  /\ festivalPlan.demandForecast[2].festivalDemand = 25

\* the three cost sums as the claim states them, in thousandths, over the stored
\* allocation and the records, factories and suppliers the run read
ClaimProductionCost ==
  SumOver([ix \in 1..Len(optimizedData.productionAllocation) |->
             LET a == optimizedData.productionAllocation[ix]
             IN IF a.allocatedDemand = NaN THEN NaN
                ELSE a.allocatedDemand * costPerUnitOf(RunFactories, a.factory) * 100])

ClaimInventoryCost ==
  SumOver([ix \in 1..Len(RunItems) |->
             RunItems[ix].current_stock * RunItems[ix].unit_cost
               * RunItems[ix].holding_cost_rate])

ClaimProcurementCost ==
  SumOver([ix \in 1..Len(optRead.in.sups) |->
             optRead.in.sups[ix].moq * optRead.in.sups[ix].unit_price * 100])

\* C24: cost aggregation: the result reports totalProductionCost = the sum of
\* allocatedDemand * production_cost_per_unit over the allocations,
\* totalInventoryCost = the sum of current_stock * unit_cost * holding_cost_rate
\* over the records (whatever the festival plan), totalProcurementCost = the sum
\* of moq * unit_price over the suppliers, and totalSupplyChainCost = the sum of
\* the three; each reported to two decimals.
C24_CostAggregation ==
  RunDone =>
    LET costs == optimizedData.costAnalysis IN
    /\ costs.totalProductionCost = Fixed2(ClaimProductionCost)
    /\ costs.totalInventoryCost = Fixed2(ClaimInventoryCost)
    /\ costs.totalProcurementCost = Fixed2(ClaimProcurementCost)
    /\ costs.totalSupplyChainCost =
         (IF ClaimProductionCost = NaN THEN NaN
          ELSE Fixed2(ClaimProductionCost + ClaimInventoryCost + ClaimProcurementCost))
    /\ ClaimProductionCost # NaN =>
         costs.totalSupplyChainCost =
           costs.totalProductionCost + costs.totalInventoryCost
             + costs.totalProcurementCost

\* C24 witness: a run that read a plan surging a SKU, with production allocated,
\* stock held and suppliers to order from, reported the four costs
C24_Witness ==
  /\ RunDone
  /\ RunPlan # Null
  /\ \E i \in DOMAIN RunItems :
       /\ PlanEntries(RunPlan, RunItems[i].sku) # {}
       /\ ClaimDemand(RunItems[i], RunPlan) > RunItems[i].forecast_demand
  /\ optimizedData.costAnalysis.totalProductionCost # NaN
  /\ optimizedData.costAnalysis.totalProductionCost > 0
  /\ optimizedData.costAnalysis.totalInventoryCost > 0
  /\ optimizedData.costAnalysis.totalProcurementCost > 0
  /\ optimizedData.costAnalysis.totalSupplyChainCost
       > optimizedData.costAnalysis.totalProductionCost

\* the records the store holds
StoreItems == Deref(inventoryData, heap)

\* C25: analysis reporter: forecastAccuracy, computed for every record store and
\* reported by an analysis, is 100 * (1 - sum |forecast - actual| / sum forecast)
\* over the SKU set, to two decimals, and 100 when the total forecast is 0 (the
\* empty SKU set included); criticalShortages is exactly the
\* SKUs with current_stock < 0.5 * actual_demand, and highRiskProducts is the
\* number of SKUs with current_stock < 0.3 * actual_demand.
C25_AnalysisReporter ==
  LET forecast == SumOver([ix \in 1..Len(StoreItems) |->
                             StoreItems[ix].forecast_demand])
      error == SumOver([ix \in 1..Len(StoreItems) |->
                 IF StoreItems[ix].forecast_demand >= StoreItems[ix].actual_demand
                 THEN StoreItems[ix].forecast_demand - StoreItems[ix].actual_demand
                 ELSE StoreItems[ix].actual_demand - StoreItems[ix].forecast_demand])
      accuracy == dynamicForecastAccuracy(StoreItems)
      off == 10000 * (forecast - error) - accuracy * forecast
  IN /\ forecast = 0 => accuracy = 10000
     /\ forecast > 0 => (2 * off <= forecast /\ -2 * off <= forecast)
     /\ analysisData # Null =>
          LET critical == analysisData.criticalShortages IN
          /\ analysisData.forecastAccuracy = accuracy
          /\ {critical[k] : k \in DOMAIN critical} =
               {o \in Range(inventoryData) :
                  2 * heap[o].current_stock < heap[o].actual_demand}
          /\ \A j, k \in DOMAIN critical : critical[j] = critical[k] => j = k
          /\ analysisData.highRiskProducts =
               Cardinality({i \in DOMAIN StoreItems :
                  10 * StoreItems[i].current_stock < 3 * StoreItems[i].actual_demand})

\* C25 witness: an analysis of two SKUs reported an accuracy of 61.54, both SKUs
\* as critical shortages and one of them as a high risk product
C25_Witness ==
  /\ analysisData # Null
  /\ Len(inventoryData) = 2
  /\ analysisData.forecastAccuracy = 6154
  /\ Len(analysisData.criticalShortages) = 2
  /\ analysisData.highRiskProducts = 1

\* the records the claim expects of a file: one per data line that has at least
\* as many fields as the header, in file order
ClaimRows(file) ==
  LET acc[i \in 1..Len(file)] ==
        IF i = 1 THEN << >>
        ELSE IF Len(file[i]) >= Len(file[1])
             THEN Append(acc[i-1], ParseRow(file[i], i - 1))
             ELSE acc[i-1]
  IN acc[Len(file)]

\* C26: CSV row loading: when a file has been read, the record store holds
\* exactly one record per data line (every line after the header) that has at
\* least as many comma-separated fields as the header, in file order; a line
\* with fewer fields, and only such a line, is discarded.
C26_CsvRowLoading ==
  [][ \A t \in InFlight("read") :
        t \notin timers' =>
          Deref(inventoryData', heap') = ClaimRows(t.file) ]_vars

\* a step that uploads a file: a FileReader callback is added
UploadStep == \E t \in InFlight("read")' : t \notin InFlight("read")

\* C27: upload discards stale results: an upload leaves analysisData and
\* optimizedData null, and under every interleaving no analysis or optimization
\* that was requested before the upload, and so computed from the records of
\* before it, stores its result after the upload.
C27_UploadDiscardsStale ==
  [][ /\ UploadStep => (analysisData' = Null /\ optimizedData' = Null)
      /\ \A t \in pendingAtUpload :
           t \notin timers' =>
             /\ t.kind = "analysis" => analysisData' = Null
             /\ t.kind = "opt" => optimizedData' = Null ]_vars

\* C28: capacity warning reachability: when the capacities are non-negative and
\* their sum is positive, the capacityUtilization of the result is a number of at
\* most 100, so the Capacity Warning, shown only above 100, is not displayed.
C28_CapacityWarning ==
  (RunDone /\ SumOver(RunCaps) > 0 /\ \A i \in DOMAIN RunCaps : RunCaps[i] >= 0) =>
    /\ optimizedData.performanceMetrics.capacityUtilization # NaN
    /\ optimizedData.performanceMetrics.capacityUtilization <= 10000
    /\ ~CapacityWarningShown

\* C28 witness: a run needed more than the factories can make, allocated all of
\* their capacity, reported a utilization of 100 and showed no warning
C28_Witness ==
  /\ RunDone
  /\ SumOver(RunCaps) > 0
  /\ ClaimP > SumOver(RunCaps)
  /\ optimizedData.performanceMetrics.capacityUtilization = 10000
  /\ ~CapacityWarningShown

\* C29: festival plan freshness: whenever an optimization uses a plan entry for
\* a SKU, the baseDemand of that entry equals the forecast_demand of that SKU in
\* the records the run reads: a stored plan is never used with stale demands.
C29_PlanFreshness ==
  RunDone =>
    \A i \in DOMAIN RunItems :
      \A k \in PlanEntries(RunPlan, RunItems[i].sku) :
        (\A j \in PlanEntries(RunPlan, RunItems[i].sku) : k <= j) =>
          RunPlan.demandForecast[k].baseDemand = RunItems[i].forecast_demand

\* the three stock levels of a demand d, as the policy rounds them
PolicyLevels(d) ==
  [ safetyStock |-> MathRound(d * 3, 10),
    reorderPoint |-> MathRound(d * 8, 10),
    optimalInventory |-> MathRound(d * 12, 10) ]

\* 0 <= safetyStock <= reorderPoint <= optimalInventory
Ordered(row) ==
  /\ 0 <= row.safetyStock
  /\ row.safetyStock <= row.reorderPoint
  /\ row.reorderPoint <= row.optimalInventory

\* C30: ordering of stock levels: for every SKU whose demand d is an integer
\* >= 0, safetyStock <= reorderPoint <= optimalInventory and all three are >= 0:
\* in every policy row of every result, and for every d up to MaxDemand.
C30_StockLevelOrdering ==
  /\ \A d \in 0..MaxDemand : Ordered(PolicyLevels(d))
  /\ RunDone =>
       \A i \in DOMAIN RunItems :
         ClaimDemand(RunItems[i], RunPlan) >= 0 =>
           /\ Ordered(optimizedData.inventoryOptimization[i])
           /\ optimizedData.inventoryOptimization[i].safetyStock
                = PolicyLevels(ClaimDemand(RunItems[i], RunPlan)).safetyStock

\* C30 witness: a result holds a row of a positive demand whose three levels are
\* strictly ordered, beside a row of demand 0 with all three at 0
C30_Witness ==
  /\ RunDone
  /\ Len(RunItems) = 2
  /\ ClaimDemand(RunItems[1], RunPlan) = 0
  /\ optimizedData.inventoryOptimization[1].optimalInventory = 0
  /\ optimizedData.inventoryOptimization[2].safetyStock > 0
  /\ optimizedData.inventoryOptimization[2].safetyStock
       < optimizedData.inventoryOptimization[2].reorderPoint
  /\ optimizedData.inventoryOptimization[2].reorderPoint
       < optimizedData.inventoryOptimization[2].optimalInventory


====
